---- MODULE Spec2Model ----
(***************************************************************************)
(* The stream pumps of exepack's helper filters: decompress_gzip,          *)
(* decompress_xz, decompress_zstd, the embedded temsxz decoder and the     *)
(* full-featured temsxz (compress and decompress).  Each driver is a       *)
(* process with a program counter; the codec engines (zlib, liblzma,       *)
(* libzstd, xz-embedded) are external libraries and are modelled by a      *)
(* small run-length codec that obeys their documented step contract.       *)
(***************************************************************************)
EXTENDS Integers, Sequences, FiniteSets, TLC

\* #define CHUNK 16384, scaled down: every buffer of the drivers holds CHUNK bytes.
CHUNK == 2

\* Bounds of the explored inputs.
MaxIn == 4       \* longest standard input handed to a decoding driver
MaxPayload == 4  \* longest standard input handed to temsxz -c
MaxArgs == 3     \* longest argument list drawn over all flags
MaxFairIn == 1   \* longest standard input of the runs checked for termination

Min(a, b) == IF a < b THEN a ELSE b

Take(s, n) == SubSeq(s, 1, Min(n, Len(s)))
Drop(s, n) == SubSeq(s, Min(n, Len(s)) + 1, Len(s))

RECURSIVE SeqsUpTo(_, _)
SeqsUpTo(S, n) ==
  IF n = 0 THEN {<<>>}
  ELSE LET shorter == SeqsUpTo(S, n - 1)
       IN  shorter \cup {Append(s, x) : s \in {t \in shorter : Len(t) = n - 1}, x \in S}

IsPrefix(s, t) == Len(s) <= Len(t) /\ SubSeq(t, 1, Len(s)) = s

(***************************************************************************)
(* The codec.  Payload bytes are 0 and 1.  A container is a sequence of    *)
(* symbols: 0, 1 a literal byte; 2, 3 two copies of byte 0, 1; END closes  *)
(* a member; BAD is a malformed symbol.                                    *)
(***************************************************************************)
Byte == {0, 1}
END == 4
BAD == 5
Sym == Byte \cup {2, 3, END, BAD}

\* The engine kinds, one per backend the drivers construct.
Inflate == "Inflate"
LzmaEncode == "LzmaEncode"
LzmaDecode == "LzmaDecode"
EmbeddedXzDecode == "EmbeddedXzDecode"
ZstdDecode == "ZstdDecode"

\* A freshly constructed engine.  pend: bytes transformed but not yet handed out;
\* hold: the encoder's look-behind byte (-1: none); ended: the member is closed;
\* nop: the previous call made no progress; eager: the engine buffers everything
\* it is given (otherwise it stops consuming once the output window is full).
NewEngine(kind, preset, eagerness) ==
  [kind |-> kind, preset |-> preset, eager |-> eagerness,
   pend |-> <<>>, hold |-> -1, ended |-> FALSE, failed |-> FALSE, nop |-> FALSE]

\* Members may follow one another only for the liblzma decoder (LZMA_CONCATENATED).
Concatenated(e) == e.kind = LzmaDecode

\* What one symbol expands to.
Expand(s) == IF s \in Byte THEN <<s>> ELSE <<s - 2, s - 2>>

\* One call's inner loop of a decoder: r = [e, in, used, out], room the window size.
RECURSIVE DecLoop(_, _)
DecLoop(r, room) ==
  LET e == r.e IN
  IF \/ r.used = Len(r.in)
     \/ e.failed
     \/ (e.ended /\ ~Concatenated(e))
     \/ (~e.eager /\ Len(r.out) = room)
  THEN r
  ELSE
    LET s == r.in[r.used + 1] IN
    IF s = BAD THEN [r EXCEPT !.e.failed = TRUE, !.used = @ + 1]
    ELSE IF s = END THEN DecLoop([r EXCEPT !.e.ended = TRUE, !.used = @ + 1], room)
    ELSE
      LET all  == e.pend \o Expand(s)
          fits == Min(Len(all), room - Len(r.out))
      IN  DecLoop([r EXCEPT !.e.pend = Drop(all, fits), !.e.ended = FALSE,
                            !.used = @ + 1, !.out = @ \o Take(all, fits)], room)

\* One call's inner loop of the encoder (run-length pairs; level 0 stores literals).
RECURSIVE EncLoop(_, _)
EncLoop(r, room) ==
  LET e == r.e IN
  IF \/ r.used = Len(r.in)
     \/ (~e.eager /\ Len(r.out) = room)
  THEN r
  ELSE
    LET b     == r.in[r.used + 1]
        store == e.preset.level = 0
        emit  == IF store THEN <<b>>
                 ELSE IF e.hold = -1 THEN <<>>
                 ELSE IF e.hold = b THEN <<b + 2>>
                 ELSE <<e.hold>>
        hold2 == IF store THEN -1
                 ELSE IF e.hold = b THEN -1
                 ELSE b
        all   == e.pend \o emit
        fits  == Min(Len(all), room - Len(r.out))
    IN  EncLoop([r EXCEPT !.e.pend = Drop(all, fits), !.e.hold = hold2,
                          !.used = @ + 1, !.out = @ \o Take(all, fits)], room)

\* The encoder's finish step: flush the held byte and close the member.
EncFinish(r, room, finish) ==
  IF finish /\ r.used = Len(r.in) /\ ~r.e.ended
  THEN LET all  == r.e.pend \o (IF r.e.hold = -1 THEN <<>> ELSE <<r.e.hold>>) \o <<END>>
           fits == Min(Len(all), room - Len(r.out))
       IN  [r EXCEPT !.e.pend = Drop(all, fits), !.e.hold = -1, !.e.ended = TRUE,
                     !.out = @ \o Take(all, fits)]
  ELSE r

\* Bytes left over from earlier calls go out first.
Flush(e, in, room) ==
  LET n == Min(Len(e.pend), room)
  IN  [e |-> [e EXCEPT !.pend = Drop(e.pend, n)], in |-> in, used |-> 0,
       out |-> Take(e.pend, n)]

\* The status of a call: "end" stream-end, "err" a malformed stream, "buf" no
\* progress was possible, "ok" call again.
Status(e0, r, finish) ==
  LET e        == r.e
      progress == r.used > 0 \/ Len(r.out) > 0
      atEnd    == /\ e.ended /\ e.pend = <<>>
                  /\ (Concatenated(e) => finish /\ r.used = Len(r.in))
  IN  IF e.failed THEN "err"
      ELSE IF atEnd THEN "end"
      ELSE IF progress THEN "ok"
      ELSE IF e.kind = Inflate THEN "buf"
      ELSE IF e.kind = ZstdDecode THEN "ok"
      ELSE IF e0.nop THEN "buf"
      ELSE "ok"

\* One engine invocation on the input slice `in` with `room` bytes of output
\* window: the engine after the call, the input bytes used, the bytes put into
\* the window and the status.
Step(e, in, room, finish) ==
  LET r0 == Flush(e, in, room)
      r  == IF e.kind = LzmaEncode
            THEN EncFinish(EncLoop(r0, room), room, finish)
            ELSE DecLoop(r0, room)
      st == Status(e, r, finish)
  IN  [e |-> [r.e EXCEPT !.nop = (r.used = 0 /\ Len(r.out) = 0)],
       used |-> r.used, out |-> r.out, ret |-> st]

(***************************************************************************)
(* The process state.                                                      *)
(***************************************************************************)
VARIABLES
  driver,    \* which program runs
  args,      \* argv[1..argc-1], each argument a sequence of characters
  argi,      \* temsxz: arguments parsed so far (i - 1)
  compress,  \* temsxz: -1 undefined, 0 decompress, 1 compress
  level,     \* temsxz: compression level
  extreme,   \* temsxz: extreme flag
  pc,        \* the driver's position
  input,     \* the whole byte stream behind standard input
  rpos,      \* bytes of it already read
  eof,       \* feof(stdin)
  inbuf,     \* the input buffer's valid bytes (fill_len = in_size = Len(inbuf))
  in_pos,    \* bytes of inbuf the engine has consumed (read_pos)
  outbuf,    \* the output buffer's produced bytes (produced_len = Len(outbuf))
  action,    \* LZMA_RUN or LZMA_FINISH
  ret,       \* the last engine status
  eng,       \* the engine
  eager,     \* the engine's buffering behaviour, fixed for the run
  produced,  \* every byte the engine has put into an output window, in order
  stdout,    \* every byte standard output has accepted, in order
  rerr,      \* ferror(stdin)
  werr,      \* ferror(stdout) / a short fwrite
  exitcode,  \* the process exit code, -1 while running
  built,     \* engines successfully constructed
  ends,      \* calls of the engine's destroy operation
  stage,     \* 1, and 2 for the decompressing end of a round trip
  orig       \* the first stage's standard input

vars == <<driver, args, argi, compress, level, extreme, pc, input, rpos, eof,
          inbuf, in_pos, outbuf, action, ret, eng, eager, produced, stdout,
          rerr, werr, exitcode, built, ends, stage, orig>>

Gzip == "decompress_gzip"
Xz == "decompress_xz"
Zstd == "decompress_zstd"
Embedded == "embedded/temsxz"
Temsxz == "temsxz"
DecodeOnly == {Gzip, Xz, Zstd, Embedded}

LZMA_RUN == "LZMA_RUN"
LZMA_FINISH == "LZMA_FINISH"

NoEngine == NewEngine("none", [level |-> 0, extreme |-> 0], FALSE)

\* Arguments, as the characters strcmp and argv[i][k] see.
Arg(a, b) == <<a, b>>
Digits == {"0", "1", "2", "3", "4", "5", "6", "7", "8", "9"}
\* The digit's character code, not its value: level = argv[i][1].
DigitValueAscii(c) ==
  48 + (CASE c = "0" -> 0 [] c = "1" -> 1 [] c = "2" -> 2 [] c = "3" -> 3
          [] c = "4" -> 4 [] c = "5" -> 5 [] c = "6" -> 6 [] c = "7" -> 7
          [] c = "8" -> 8 [] c = "9" -> 9)
\* level = argv[i][1] - '0'
DigitValue(c) ==
  CASE c = "0" -> 0 [] c = "1" -> 1 [] c = "2" -> 2 [] c = "3" -> 3 [] c = "4" -> 4
    [] c = "5" -> 5 [] c = "6" -> 6 [] c = "7" -> 7 [] c = "8" -> 8 [] c = "9" -> 9
LevelFlags == {Arg("-", d) : d \in Digits}
Flags == {Arg("-", "c"), Arg("-", "d"), Arg("-", "e"), Arg("-", "h"), Arg("-", "v"),
          <<"-", "9", "e">>} \cup LevelFlags

\* The argument lists of the runs that exercise the pump.
CompressArgs ==
  {<<Arg("-", "c")>>}
  \cup {<<Arg("-", "c"), l>> : l \in LevelFlags}
  \cup {<<Arg("-", "c"), l, Arg("-", "e")>> : l \in LevelFlags}
DecompressArgs == {<<>>, <<Arg("-", "d")>>}

avail_in == Len(inbuf) - in_pos
avail_out == CHUNK - Len(outbuf)

Start(d, a, in, eg) ==
  /\ driver = d /\ args = a /\ input = in /\ eager = eg
  /\ argi = 0 /\ compress = -1 /\ level = 6 /\ extreme = 0
  /\ pc = IF d = Temsxz THEN "parse" ELSE "init"
  /\ rpos = 0 /\ eof = FALSE
  /\ inbuf = <<>> /\ in_pos = 0 /\ outbuf = <<>>
  /\ action = LZMA_RUN /\ ret = "none" /\ eng = NoEngine
  /\ produced = <<>> /\ stdout = <<>> /\ rerr = FALSE /\ werr = FALSE
  /\ exitcode = -1 /\ built = 0 /\ ends = 0
  /\ stage = 1 /\ orig = in

\* Runs that exercise the pump: every decoder on every symbol stream, temsxz -c
\* on every payload at every level.
PumpInit ==
  \E eg \in BOOLEAN :
    \/ \E d \in DecodeOnly, in \in SeqsUpTo(Sym, MaxIn) : Start(d, <<>>, in, eg)
    \/ \E a \in DecompressArgs, in \in SeqsUpTo(Sym, MaxIn) : Start(Temsxz, a, in, eg)
    \/ \E a \in CompressArgs, in \in SeqsUpTo(Byte, MaxPayload) : Start(Temsxz, a, in, eg)

\* Runs that exercise the argument parser: every list of flags.
ArgsInit ==
  \E a \in SeqsUpTo(Flags, MaxArgs), in \in {<<>>, <<1>>} : Start(Temsxz, a, in, FALSE)

Init == PumpInit \/ ArgsInit

(***************************************************************************)
(* Library calls shared by the drivers.                                    *)
(***************************************************************************)
\* fread(in, 1, CHUNK, stdin) without a read error: a full chunk, or what is left
\* with the end-of-file indicator set.
FreadCount == Min(CHUNK, Len(input) - rpos)
Fread ==
  /\ inbuf' = SubSeq(input, rpos + 1, rpos + FreadCount)
  /\ rpos' = rpos + FreadCount
  /\ eof' = (eof \/ FreadCount < CHUNK)

\* fwrite(buf, 1, n, stdout): all of it, or a short write with the error indicator.
Fwrite(buf) ==
  \/ /\ stdout' = stdout \o buf
     /\ werr' = werr
  \/ /\ Len(buf) > 0
     /\ \E k \in 0..(Len(buf) - 1) : stdout' = stdout \o Take(buf, k)
     /\ werr' = TRUE

\* return code, after destroying the engine when `destroy`.
Exit(code, destroy) ==
  /\ pc' = "exit"
  /\ exitcode' = code
  /\ ends' = IF destroy THEN ends + 1 ELSE ends

\* The engine is invoked on the unconsumed input and on the output window, which
\* already holds `held` (empty when the driver resets next_out before the call).
Invoke(finish, held) ==
  LET r == Step(eng, SubSeq(inbuf, in_pos + 1, Len(inbuf)), CHUNK - Len(held), finish)
  IN  /\ eng' = r.e
      /\ in_pos' = in_pos + r.used
      /\ outbuf' = held \o r.out
      /\ produced' = produced \o r.out
      /\ ret' = r.ret

\* Engine construction: it succeeds, or fails for want of memory.
Construct(kind, preset) ==
  /\ eng' = NewEngine(kind, preset, eager)
  /\ built' = built + 1

conf == <<driver, args, eager, input, stage, orig>>
\* A failed fread: the error indicator is set and nothing is delivered.
FreadError == rerr' = TRUE /\ UNCHANGED <<rpos, eof, inbuf, in_pos>>

parsed == <<argi, compress, level, extreme>>

(***************************************************************************)
(* decompress_gzip                                                         *)
(***************************************************************************)
GzipInit ==
  /\ driver = Gzip /\ pc = "init"
  /\ \/ Construct(Inflate, NoEngine.preset) /\ pc' = "read"
          /\ UNCHANGED <<exitcode, ends>>
     \/ Exit(1, FALSE) /\ UNCHANGED <<eng, built>>
  /\ UNCHANGED <<conf, rerr, parsed, rpos, eof, inbuf, in_pos, outbuf, action, ret,
                 produced, stdout, werr>>

GzipRead ==
  /\ driver = Gzip /\ pc = "read"
  /\ \/ Fread /\ in_pos' = 0 /\ pc' = "inflate"
          /\ UNCHANGED <<rerr, exitcode, ends>>
     \/ Exit(1, TRUE) /\ FreadError
  /\ UNCHANGED <<conf, parsed, outbuf, action, ret, eng, produced, stdout, werr, built>>

GzipInflate ==
  /\ driver = Gzip /\ pc = "inflate"
  /\ Invoke(FALSE, <<>>)
  /\ IF ret' = "err"
     THEN Exit(1, TRUE)
     ELSE pc' = "fwrite" /\ UNCHANGED <<exitcode, ends>>
  /\ UNCHANGED <<conf, rerr, parsed, rpos, eof, inbuf, action, stdout, werr, built>>

GzipFwrite ==
  /\ driver = Gzip /\ pc = "fwrite"
  /\ Fwrite(outbuf)
  /\ pc' = "wcheck"
  /\ UNCHANGED <<conf, rerr, parsed, rpos, eof, inbuf, in_pos, outbuf, action, ret, eng,
                 produced, exitcode, built, ends>>

\* The write check without the inner loop: a full output buffer goes back to
\* the read.
GzipWcheckNoInnerLoop ==
  /\ driver = Gzip /\ pc = "wcheck"
  /\ IF werr THEN Exit(1, TRUE)
     ELSE IF ret # "end" THEN pc' = "read" /\ UNCHANGED <<exitcode, ends>>
     ELSE Exit(0, TRUE)
  /\ UNCHANGED <<conf, rerr, parsed, rpos, eof, inbuf, in_pos, outbuf, action, ret, eng,
                 produced, stdout, werr, built>>

GzipWcheck ==
  /\ driver = Gzip /\ pc = "wcheck"
  /\ IF werr THEN Exit(1, TRUE)
     ELSE IF avail_out = 0 THEN pc' = "inflate" /\ UNCHANGED <<exitcode, ends>>
     ELSE IF ret # "end" THEN pc' = "read" /\ UNCHANGED <<exitcode, ends>>
     ELSE Exit(0, TRUE)
  /\ UNCHANGED <<conf, rerr, parsed, rpos, eof, inbuf, in_pos, outbuf, action, ret, eng,
                 produced, stdout, werr, built>>

(***************************************************************************)
(* decompress_xz                                                           *)
(***************************************************************************)
XzInit ==
  /\ driver = Xz /\ pc = "init"
  /\ \/ Construct(LzmaDecode, NoEngine.preset) /\ pc' = "read"
          /\ UNCHANGED <<exitcode, ends>>
     \/ Exit(1, FALSE) /\ UNCHANGED <<eng, built>>
  /\ UNCHANGED <<conf, rerr, parsed, rpos, eof, inbuf, in_pos, outbuf, action, ret,
                 produced, stdout, werr>>

XzRead ==
  /\ driver = Xz /\ pc = "read"
  /\ IF avail_in = 0
     THEN \/ /\ Fread /\ in_pos' = 0 /\ pc' = "code"
             /\ action' = IF FreadCount = 0 THEN LZMA_FINISH ELSE action
             /\ UNCHANGED <<rerr, exitcode, ends>>
          \/ Exit(1, TRUE) /\ FreadError /\ UNCHANGED action
     ELSE pc' = "code" /\ UNCHANGED <<rpos, eof, inbuf, in_pos, action, rerr, exitcode, ends>>
  /\ UNCHANGED <<conf, parsed, outbuf, ret, eng, produced, stdout, werr, built>>

XzCode ==
  /\ driver = Xz /\ pc = "code"
  /\ Invoke(action = LZMA_FINISH, <<>>)
  /\ IF ret' # "ok" /\ ret' # "end"
     THEN Exit(1, TRUE)
     ELSE pc' = "fwrite" /\ UNCHANGED <<exitcode, ends>>
  /\ UNCHANGED <<conf, rerr, parsed, rpos, eof, inbuf, action, stdout, werr, built>>

XzFwrite ==
  /\ driver = Xz /\ pc = "fwrite"
  /\ Fwrite(outbuf)
  /\ pc' = "wcheck"
  /\ UNCHANGED <<conf, rerr, parsed, rpos, eof, inbuf, in_pos, outbuf, action, ret, eng,
                 produced, exitcode, built, ends>>

\* The write check without the ferror(stdout) test.
XzWcheckIgnoresError ==
  /\ driver = Xz /\ pc = "wcheck"
  /\ IF ret = "end" THEN Exit(0, TRUE)
     ELSE pc' = "read" /\ UNCHANGED <<exitcode, ends>>
  /\ UNCHANGED <<conf, rerr, parsed, rpos, eof, inbuf, in_pos, outbuf, action, ret, eng,
                 produced, stdout, werr, built>>

XzWcheck ==
  /\ driver = Xz /\ pc = "wcheck"
  /\ IF werr THEN Exit(1, TRUE)
     ELSE IF ret = "end" THEN Exit(0, TRUE)
     ELSE pc' = "read" /\ UNCHANGED <<exitcode, ends>>
  /\ UNCHANGED <<conf, rerr, parsed, rpos, eof, inbuf, in_pos, outbuf, action, ret, eng,
                 produced, stdout, werr, built>>

(***************************************************************************)
(* decompress_zstd                                                         *)
(***************************************************************************)
ZstdInit ==
  /\ driver = Zstd /\ pc = "init"
  /\ \/ Construct(ZstdDecode, NoEngine.preset) /\ pc' = "read"
          /\ UNCHANGED <<exitcode, ends>>
     \/ Exit(1, FALSE) /\ UNCHANGED <<eng, built>>
  /\ UNCHANGED <<conf, rerr, parsed, rpos, eof, inbuf, in_pos, outbuf, action, ret,
                 produced, stdout, werr>>

ZstdRead ==
  /\ driver = Zstd /\ pc = "read"
  /\ IF in_pos >= Len(inbuf)
     THEN \/ /\ Fread
             /\ IF FreadCount = 0
                THEN Exit(0, TRUE) /\ UNCHANGED <<in_pos, rerr>>
                ELSE in_pos' = 0 /\ pc' = "code" /\ UNCHANGED <<rerr, exitcode, ends>>
          \/ Exit(1, TRUE) /\ FreadError
     ELSE pc' = "code" /\ UNCHANGED <<rpos, eof, inbuf, in_pos, rerr, exitcode, ends>>
  /\ UNCHANGED <<conf, parsed, outbuf, action, ret, eng, produced, stdout, werr, built>>

ZstdCode ==
  /\ driver = Zstd /\ pc = "code"
  /\ Invoke(FALSE, <<>>)
  /\ IF ret' = "err"
     THEN Exit(1, TRUE)
     ELSE pc' = "fwrite" /\ UNCHANGED <<exitcode, ends>>
  /\ UNCHANGED <<conf, rerr, parsed, rpos, eof, inbuf, action, stdout, werr, built>>

ZstdFwrite ==
  /\ driver = Zstd /\ pc = "fwrite"
  /\ Fwrite(outbuf)
  /\ pc' = "wcheck"
  /\ UNCHANGED <<conf, rerr, parsed, rpos, eof, inbuf, in_pos, outbuf, action, ret, eng,
                 produced, exitcode, built, ends>>

\* The write check without `if (last_ret == 0) break;`.
ZstdWcheckNoBreak ==
  /\ driver = Zstd /\ pc = "wcheck"
  /\ IF werr THEN Exit(1, TRUE)
     ELSE pc' = "read" /\ UNCHANGED <<exitcode, ends>>
  /\ UNCHANGED <<conf, rerr, parsed, rpos, eof, inbuf, in_pos, outbuf, action, ret, eng,
                 produced, stdout, werr, built>>

ZstdWcheck ==
  /\ driver = Zstd /\ pc = "wcheck"
  /\ IF werr THEN Exit(1, TRUE)
     ELSE IF ret = "end" THEN Exit(0, TRUE)
     ELSE pc' = "read" /\ UNCHANGED <<exitcode, ends>>
  /\ UNCHANGED <<conf, rerr, parsed, rpos, eof, inbuf, in_pos, outbuf, action, ret, eng,
                 produced, stdout, werr, built>>

(***************************************************************************)
(* embedded/temsxz                                                         *)
(***************************************************************************)
EmbInit ==
  /\ driver = Embedded /\ pc = "init"
  /\ \/ /\ Construct(EmbeddedXzDecode, NoEngine.preset) /\ pc' = "read"
        /\ inbuf' = <<>> /\ in_pos' = 0 /\ outbuf' = <<>>
        /\ UNCHANGED <<exitcode, ends>>
     \/ Exit(1, FALSE) /\ UNCHANGED <<eng, built, inbuf, in_pos, outbuf>>
  /\ UNCHANGED <<conf, rerr, parsed, rpos, eof, action, ret, produced, stdout, werr>>

\* The refill without buf.in_pos = 0.
EmbReadNoRewind ==
  /\ driver = Embedded /\ pc = "read"
  /\ IF in_pos = Len(inbuf) /\ ~eof
     THEN \/ Fread /\ pc' = "run" /\ UNCHANGED <<in_pos, rerr, exitcode, ends>>
          \/ Exit(1, TRUE) /\ FreadError
     ELSE pc' = "run" /\ UNCHANGED <<rpos, eof, inbuf, in_pos, rerr, exitcode, ends>>
  /\ UNCHANGED <<conf, parsed, outbuf, action, ret, eng, produced, stdout, werr, built>>

EmbRead ==
  /\ driver = Embedded /\ pc = "read"
  /\ IF in_pos = Len(inbuf) /\ ~eof
     THEN \/ Fread /\ in_pos' = 0 /\ pc' = "run" /\ UNCHANGED <<rerr, exitcode, ends>>
          \/ Exit(1, TRUE) /\ FreadError
     ELSE pc' = "run" /\ UNCHANGED <<rpos, eof, inbuf, in_pos, rerr, exitcode, ends>>
  /\ UNCHANGED <<conf, parsed, outbuf, action, ret, eng, produced, stdout, werr, built>>

EmbRun ==
  /\ driver = Embedded /\ pc = "run"
  /\ Invoke(FALSE, outbuf)
  /\ pc' = "write"
  /\ UNCHANGED <<conf, rerr, parsed, rpos, eof, inbuf, action, stdout, werr, exitcode,
                 built, ends>>

\* The write issued only for a full output buffer.
EmbWriteWhenFull ==
  /\ driver = Embedded /\ pc = "write"
  /\ IF Len(outbuf) = CHUNK
     THEN Fwrite(outbuf) /\ pc' = "wcheck"
     ELSE pc' = "retcheck" /\ UNCHANGED <<stdout, werr>>
  /\ UNCHANGED <<conf, rerr, parsed, rpos, eof, inbuf, in_pos, outbuf, action, ret, eng,
                 produced, exitcode, built, ends>>

EmbWrite ==
  /\ driver = Embedded /\ pc = "write"
  /\ IF Len(outbuf) > 0
     THEN Fwrite(outbuf) /\ pc' = "wcheck"
     ELSE pc' = "retcheck" /\ UNCHANGED <<stdout, werr>>
  /\ UNCHANGED <<conf, rerr, parsed, rpos, eof, inbuf, in_pos, outbuf, action, ret, eng,
                 produced, exitcode, built, ends>>

\* The write check without buf.out_pos = 0.
EmbWcheckNoReset ==
  /\ driver = Embedded /\ pc = "wcheck"
  /\ IF werr
     THEN Exit(1, TRUE)
     ELSE pc' = "retcheck" /\ UNCHANGED <<exitcode, ends>>
  /\ UNCHANGED <<conf, rerr, parsed, rpos, eof, inbuf, in_pos, outbuf, action, ret, eng,
                 produced, stdout, werr, built>>

EmbWcheck ==
  /\ driver = Embedded /\ pc = "wcheck"
  /\ IF werr
     THEN Exit(1, TRUE) /\ UNCHANGED outbuf
     ELSE outbuf' = <<>> /\ pc' = "retcheck" /\ UNCHANGED <<exitcode, ends>>
  /\ UNCHANGED <<conf, rerr, parsed, rpos, eof, inbuf, in_pos, action, ret, eng,
                 produced, stdout, werr, built>>

\* The error return without xz_dec_end(s).
EmbRetcheckLeaks ==
  /\ driver = Embedded /\ pc = "retcheck"
  /\ IF ret = "end" THEN Exit(0, TRUE)
     ELSE IF ret # "ok" THEN Exit(1, FALSE)
     ELSE IF Len(inbuf) > 0 \/ ~eof THEN pc' = "read" /\ UNCHANGED <<exitcode, ends>>
     ELSE Exit(0, TRUE)
  /\ UNCHANGED <<conf, rerr, parsed, rpos, eof, inbuf, in_pos, outbuf, action, ret, eng,
                 produced, stdout, werr, built>>

EmbRetcheck ==
  /\ driver = Embedded /\ pc = "retcheck"
  /\ IF ret = "end" THEN Exit(0, TRUE)
     ELSE IF ret # "ok" THEN Exit(1, TRUE)
     ELSE IF Len(inbuf) > 0 \/ ~eof THEN pc' = "read" /\ UNCHANGED <<exitcode, ends>>
     ELSE Exit(0, TRUE)
  /\ UNCHANGED <<conf, rerr, parsed, rpos, eof, inbuf, in_pos, outbuf, action, ret, eng,
                 produced, stdout, werr, built>>

(***************************************************************************)
(* temsxz                                                                  *)
(***************************************************************************)
\* One iteration of the argument loop.
TemsParseArg ==
  /\ driver = Temsxz /\ pc = "parse" /\ argi < Len(args)
  /\ LET a == args[argi + 1] IN
     IF a = <<"-", "h">> \/ a = <<"-", "-", "h", "e", "l", "p">>
     THEN Exit(0, FALSE) /\ UNCHANGED parsed
     ELSE IF a = <<"-", "v">> \/ a = <<"-", "-", "v", "e", "r", "s", "i", "o", "n">>
     THEN Exit(0, FALSE) /\ UNCHANGED parsed
     ELSE IF a = <<"-", "c">>
     THEN compress' = 1 /\ argi' = argi + 1
          /\ UNCHANGED <<level, extreme, pc, exitcode, ends>>
     ELSE IF a = <<"-", "d">>
     THEN compress' = 0 /\ argi' = argi + 1
          /\ UNCHANGED <<level, extreme, pc, exitcode, ends>>
     ELSE IF Len(a) = 2 /\ a[1] = "-" /\ a[2] \in Digits
     THEN LET l == DigitValue(a[2]) IN
          IF l < 0 \/ l > 9
          THEN Exit(1, FALSE) /\ level' = l /\ UNCHANGED <<argi, compress, extreme>>
          ELSE level' = l /\ argi' = argi + 1
               /\ UNCHANGED <<compress, extreme, pc, exitcode, ends>>
     ELSE IF a = <<"-", "e">>
     THEN extreme' = 1 /\ argi' = argi + 1
          /\ UNCHANGED <<compress, level, pc, exitcode, ends>>
     ELSE Exit(1, FALSE) /\ UNCHANGED parsed
  /\ UNCHANGED <<conf, rerr, rpos, eof, inbuf, in_pos, outbuf, action, ret, eng,
                 produced, stdout, werr, built>>

\* An assignment for the comparison: if (compress = -1) compress = 0;
DefaultModeAlways == IF -1 # 0 THEN 0 ELSE compress
\* if (compress == -1) compress = 0;
DefaultMode == IF compress = -1 THEN 0 ELSE compress

\* The default mode, the engine's construction and the buffers' set-up.
TemsInit ==
  /\ driver = Temsxz /\ pc = "parse" /\ argi = Len(args)
  /\ compress' = DefaultMode
  /\ \/ /\ IF compress' = 1
           THEN Construct(LzmaEncode, [level |-> level, extreme |-> extreme])
           ELSE Construct(LzmaDecode, NoEngine.preset)
        /\ inbuf' = <<>> /\ in_pos' = 0 /\ outbuf' = <<>>
        /\ pc' = "read"
        /\ UNCHANGED <<exitcode, ends>>
     \/ Exit(1, FALSE) /\ UNCHANGED <<eng, built, inbuf, in_pos, outbuf>>
  /\ UNCHANGED <<conf, rerr, argi, level, extreme, rpos, eof, action, ret, produced,
                 stdout, werr>>

\* The end of input never selects the finish action.
ActionAfterReadNever == action
\* Every read selects the finish action.
ActionAfterReadAlways == IF eof' \/ ~eof' THEN LZMA_FINISH ELSE action
\* if (feof(stdin)) action = LZMA_FINISH;
ActionAfterRead == IF eof' THEN LZMA_FINISH ELSE action

TemsRead ==
  /\ driver = Temsxz /\ pc = "read"
  /\ IF avail_in = 0 /\ ~eof
     THEN \/ /\ Fread /\ in_pos' = 0 /\ pc' = "code"
             /\ action' = ActionAfterRead
             /\ UNCHANGED <<rerr, exitcode, ends>>
          \/ Exit(1, TRUE) /\ FreadError /\ UNCHANGED action
     ELSE pc' = "code" /\ UNCHANGED <<rpos, eof, inbuf, in_pos, action, rerr, exitcode, ends>>
  /\ UNCHANGED <<conf, parsed, outbuf, ret, eng, produced, stdout, werr, built>>

TemsCode ==
  /\ driver = Temsxz /\ pc = "code"
  /\ Invoke(action = LZMA_FINISH, outbuf)
  /\ pc' = "write"
  /\ UNCHANGED <<conf, rerr, parsed, rpos, eof, inbuf, action, stdout, werr, exitcode,
                 built, ends>>

\* The buffer is written only when it is full.
NeedsFlushFullOnly == CHUNK - Len(outbuf) = 0
\* if (strm.avail_out == 0 || ret != LZMA_OK)
NeedsFlush == avail_out = 0 \/ ret # "ok"

TemsWrite ==
  /\ driver = Temsxz /\ pc = "write"
  /\ IF NeedsFlush /\ Len(outbuf) > 0
     THEN Fwrite(outbuf) /\ pc' = "wcheck"
     ELSE pc' = "retcheck" /\ UNCHANGED <<stdout, werr>>
  /\ UNCHANGED <<conf, rerr, parsed, rpos, eof, inbuf, in_pos, outbuf, action, ret, eng,
                 produced, exitcode, built, ends>>

\* The write check without the reset of next_out and avail_out.
TemsWcheckNoReset ==
  /\ driver = Temsxz /\ pc = "wcheck"
  /\ IF werr
     THEN Exit(1, TRUE)
     ELSE pc' = "retcheck" /\ UNCHANGED <<exitcode, ends>>
  /\ UNCHANGED <<conf, rerr, parsed, rpos, eof, inbuf, in_pos, outbuf, action, ret, eng,
                 produced, stdout, werr, built>>

TemsWcheck ==
  /\ driver = Temsxz /\ pc = "wcheck"
  /\ IF werr
     THEN Exit(1, TRUE) /\ UNCHANGED outbuf
     ELSE outbuf' = <<>> /\ pc' = "retcheck" /\ UNCHANGED <<exitcode, ends>>
  /\ UNCHANGED <<conf, rerr, parsed, rpos, eof, inbuf, in_pos, action, ret, eng,
                 produced, stdout, werr, built>>

TemsRetcheck ==
  /\ driver = Temsxz /\ pc = "retcheck"
  /\ IF ret # "ok"
     THEN IF ret = "end" THEN Exit(0, TRUE) ELSE Exit(1, TRUE)
     ELSE pc' = "read" /\ UNCHANGED <<exitcode, ends>>
  /\ UNCHANGED <<conf, rerr, parsed, rpos, eof, inbuf, in_pos, outbuf, action, ret, eng,
                 produced, stdout, werr, built>>

\* cat file | temsxz -c | temsxz -d: a successful compression's output becomes
\* the standard input of a decompressing temsxz.
Pipe ==
  /\ driver = Temsxz /\ stage = 1 /\ compress = 1 /\ built = 1
  /\ pc = "exit" /\ exitcode = 0
  /\ stage' = 2
  /\ args' = <<Arg("-", "d")>>
  /\ input' = stdout
  /\ argi' = 0 /\ compress' = -1 /\ level' = 6 /\ extreme' = 0
  /\ pc' = "parse"
  /\ rpos' = 0 /\ eof' = FALSE
  /\ inbuf' = <<>> /\ in_pos' = 0 /\ outbuf' = <<>>
  /\ action' = LZMA_RUN /\ ret' = "none" /\ eng' = NoEngine
  /\ produced' = <<>> /\ stdout' = <<>> /\ rerr' = FALSE /\ werr' = FALSE
  /\ exitcode' = -1 /\ built' = 0 /\ ends' = 0
  /\ UNCHANGED <<driver, eager, orig>>

Next ==
  \/ GzipInit \/ GzipRead \/ GzipInflate \/ GzipFwrite \/ GzipWcheck
  \/ XzInit \/ XzRead \/ XzCode \/ XzFwrite \/ XzWcheck
  \/ ZstdInit \/ ZstdRead \/ ZstdCode \/ ZstdFwrite \/ ZstdWcheck
  \/ EmbInit \/ EmbRead \/ EmbRun \/ EmbWrite \/ EmbWcheck \/ EmbRetcheck
  \/ TemsParseArg \/ TemsInit \/ TemsRead \/ TemsCode \/ TemsWrite \/ TemsWcheck
  \/ TemsRetcheck
  \/ Pipe

Spec == Init /\ [][Next]_vars

\* The process keeps running: a step that is possible is eventually taken
\* (reads and writes return, the engine returns).
FairInit ==
  \E eg \in BOOLEAN :
    \/ \E d \in DecodeOnly, in \in SeqsUpTo(Sym, MaxFairIn) : Start(d, <<>>, in, eg)
    \/ \E a \in DecompressArgs, in \in SeqsUpTo(Sym, MaxFairIn) : Start(Temsxz, a, in, eg)
    \/ \E in \in SeqsUpTo(Byte, MaxFairIn) : Start(Temsxz, <<Arg("-", "c")>>, in, eg)
FairSpec == FairInit /\ [][Next]_vars /\ WF_vars(Next)

(***************************************************************************)
(* Vocabulary of the properties.                                           *)
(***************************************************************************)
Exited == pc = "exit"
\* The run met a failure outside the pump's control: no engine, a failed read
\* or a failed write.
IoFailed == rerr \/ werr \/ built = 0
\* The process is a decoder whose engine was constructed.
Decoding == built = 1 /\ (driver \in DecodeOnly \/ (driver = Temsxz /\ compress = 0))
Encoding == built = 1 /\ driver = Temsxz /\ compress = 1

\* A complete valid container of one member, and the bytes it stands for.
ValidContainer(s) ==
  /\ Len(s) >= 1
  /\ s[Len(s)] = END
  /\ \A i \in 1..(Len(s) - 1) : s[i] \in 0..3
RECURSIVE PayloadOf(_)
PayloadOf(s) ==
  IF s = <<>> \/ Head(s) \notin 0..3 THEN <<>>
  ELSE Expand(Head(s)) \o PayloadOf(Tail(s))

\* C1: in every decode driver, once standard input has reached end-of-file and
\* the engine has not reported stream-end, the process does not exit with code 0.
C1_TruncationNeverExitsZero ==
  (Decoding /\ eof /\ ret # "end") => exitcode # 0

\* C2: a decode driver given a complete valid container, and meeting no I/O
\* failure, exits only with code 0, with standard output holding exactly the
\* bytes of the container in order and with no output left inside the engine.
C2_ValidContainerDecodes ==
  (Decoding /\ ValidContainer(input) /\ Exited /\ ~IoFailed)
    => (exitcode = 0 /\ stdout = PayloadOf(input) /\ eng.pend = <<>>)

\* C3: temsxz -c on a payload and then temsxz -d on its output, with no I/O
\* failure, exit with code 0 both times and give back the payload.
C3_RoundTrip ==
  (driver = Temsxz /\ Exited /\ ~IoFailed /\ (Encoding \/ stage = 2))
    => (exitcode = 0 /\ (stage = 2 => stdout = orig))
C3_Witness ==
  /\ driver = Temsxz /\ stage = 2 /\ Exited /\ exitcode = 0
  /\ Len(orig) > CHUNK /\ stdout = orig /\ Len(input) < Len(orig)

\* C5: temsxz -c on an empty standard input requests the finish action at every
\* engine invocation, invokes the engine, writes everything the engine emitted
\* and exits with code 0.
C5_EmptyInputEncode ==
  (Encoding /\ stage = 1 /\ input = <<>>)
    => /\ (pc = "code" => action = LZMA_FINISH)
       /\ ((Exited /\ ~IoFailed)
             => (exitcode = 0 /\ ret # "none" /\ produced # <<>> /\ stdout = produced))
C5_Witness ==
  /\ Encoding /\ stage = 1 /\ input = <<>>
  /\ Exited /\ exitcode = 0 /\ stdout = <<END>> /\ action = LZMA_FINISH

\* C6: in every state of every driver, standard output holds a prefix of the
\* bytes the engine has produced, in production order.
C6_StdoutPrefixOfProduced == IsPrefix(stdout, produced)
C6_Witness ==
  /\ Exited /\ werr /\ stdout # <<>> /\ Len(stdout) < Len(produced)

\* C7: once a write to standard output has failed, the only step the process
\* takes is to destroy the engine and exit with code 1: it reads nothing more,
\* invokes the engine no more and writes nothing more.
C7_WriteFailureExits ==
  [][werr => /\ pc' = "exit" /\ exitcode' = 1 /\ ends' = ends + 1
             /\ UNCHANGED <<rpos, inbuf, in_pos, eng, ret, produced, stdout>>]_vars
C7_Witness ==
  /\ Exited /\ werr /\ exitcode = 1 /\ ends = 1 /\ stdout # <<>>

\* C8: a process that exits after its engine was constructed has destroyed the
\* engine exactly once, and wherever the engine can still be invoked it has not
\* been destroyed.
C8_DestroyedExactlyOnce ==
  /\ (Exited /\ built = 1) => ends = 1
  /\ ~Exited => ends = 0
  /\ ends <= 1
C8_Witness ==
  /\ Exited /\ built = 1 /\ ends = 1 /\ ret = "err" /\ exitcode = 1

\* The flags that only configure, and what a list of them asks for.
DirFlags == {Arg("-", "c"), Arg("-", "d")}
ConfigFlags == DirFlags \cup {Arg("-", "e")} \cup LevelFlags
OnlyConfigFlags(a) == \A i \in 1..Len(a) : a[i] \in ConfigFlags
HasFlag(a, f) == \E i \in 1..Len(a) : a[i] = f
LastIndex(a, S) ==
  LET I == {i \in 1..Len(a) : a[i] \in S}
  IN  IF I = {} THEN 0 ELSE CHOOSE i \in I : \A j \in I : j <= i
DigitChars == <<"0", "1", "2", "3", "4", "5", "6", "7", "8", "9">>
LevelOf(f) == CHOOSE n \in 0..9 : f = Arg("-", DigitChars[n + 1])
WantedCompress(a) ==
  IF LastIndex(a, DirFlags) = 0 THEN 0
  ELSE IF a[LastIndex(a, DirFlags)] = Arg("-", "c") THEN 1 ELSE 0
WantedLevel(a) ==
  IF LastIndex(a, LevelFlags) = 0 THEN 6 ELSE LevelOf(a[LastIndex(a, LevelFlags)])
WantedExtreme(a) == IF HasFlag(a, Arg("-", "e")) THEN 1 ELSE 0

\* C9: for an argument list of -c, -d, -e and level flags only, temsxz leaves the
\* argument loop with the direction of the last -c/-d (decompress if none), the
\* level of the last level flag (6 if none) and extreme on iff -e was given.
C9_ArgumentParsing ==
  (driver = Temsxz /\ OnlyConfigFlags(args) /\ pc # "parse")
    => /\ compress = WantedCompress(args)
       /\ level = WantedLevel(args)
       /\ extreme = WantedExtreme(args)
       /\ (Encoding => eng.preset = [level |-> level, extreme |-> extreme])
C9_Witness ==
  /\ driver = Temsxz /\ args = <<Arg("-", "9"), Arg("-", "e"), Arg("-", "c")>>
  /\ pc = "read" /\ compress = 1 /\ level = 9 /\ extreme = 1

\* C10 as stated: an argument list holding both -c and -d makes temsxz exit with
\* code 1 with no engine constructed, nothing read and nothing written.
C10_ContradictoryFlagsRejected ==
  (driver = Temsxz /\ stage = 1
     /\ HasFlag(args, Arg("-", "c")) /\ HasFlag(args, Arg("-", "d")))
    => /\ built = 0 /\ rpos = 0 /\ stdout = <<>>
       /\ (pc # "parse" => (Exited /\ exitcode = 1))

\* C10 as amended: for a list of configuring flags holding both -c and -d,
\* temsxz completes the argument loop, the last of -c/-d selects the direction
\* and the engine of that direction is constructed; the process exits before
\* the pump only if that construction fails, with code 1.
C10_LastDirectionWins ==
  (driver = Temsxz /\ stage = 1 /\ OnlyConfigFlags(args) /\ pc # "parse"
     /\ HasFlag(args, Arg("-", "c")) /\ HasFlag(args, Arg("-", "d")))
    => /\ argi = Len(args)
       /\ compress = WantedCompress(args)
       /\ (built = 1 => eng.kind = IF WantedCompress(args) = 1
                                   THEN LzmaEncode ELSE LzmaDecode)
       /\ (built = 0 => (Exited /\ exitcode = 1 /\ rpos = 0 /\ stdout = <<>>))
C10_Witness ==
  /\ driver = Temsxz /\ stage = 1
  /\ args = <<Arg("-", "d"), Arg("-", "c")>>
  /\ built = 1 /\ compress = 1 /\ rpos > 0 /\ stdout # <<>>

\* C11: temsxz given the arguments -c -9e, as its usage text shows them, leaves
\* the argument loop with compress direction, level 9 and extreme mode on, and
\* goes on to the pump; it does not exit with an error on the arguments.
C11_UsageExampleExtreme ==
  (driver = Temsxz /\ stage = 1 /\ args = <<Arg("-", "c"), <<"-", "9", "e">>>>)
    => /\ ~(Exited /\ built = 0 /\ argi < Len(args))
       /\ (pc # "parse" => (compress = 1 /\ level = 9 /\ extreme = 1))

\* The control points at which the engine is about to be invoked.
AtInvocation == pc \in {"inflate", "code", "run"}

C13_RefillOnlyWhenConsumed ==
  [][(pc = "read" /\ (inbuf' # inbuf \/ rpos' # rpos)) => in_pos = Len(inbuf)]_vars
C13_Witness ==
  /\ driver = Gzip /\ pc = "inflate" /\ rpos > CHUNK /\ in_pos = 0
  /\ Len(produced) > CHUNK /\ stdout = produced

\* The control points of the pump's loop before the engine's next invocation:
\* the read and the invocation itself.
BeforeInvocation == built = 1 /\ (pc = "read" \/ AtInvocation)

\* C14 as stated: in every driver, before the next read and the next engine
\* invocation every byte the engine produced has been written to standard
\* output, and the engine is invoked with an empty output buffer (the drivers
\* that keep their output cursor across invocations hold nothing in it).
C14_OutputDrainedEveryTime ==
  BeforeInvocation
    => /\ stdout = produced
       /\ (driver \in {Embedded, Temsxz} => outbuf = <<>>)

\* C14 as amended: that holds in the four decode-only drivers; temsxz writes
\* only when the output buffer is full or the engine status is not ok, so
\* before its next read and invocation the buffer may hold produced bytes not
\* yet written, always fewer than CHUNK, and the bytes written followed by the
\* bytes held are the bytes produced.
C14_OutputDrainedOrHeld ==
  BeforeInvocation
    => IF driver = Temsxz
       THEN stdout \o outbuf = produced /\ Len(outbuf) < CHUNK
       ELSE stdout = produced /\ (driver = Embedded => outbuf = <<>>)
C14_Witness ==
  /\ driver = Temsxz /\ pc = "code" /\ built = 1
  /\ outbuf # <<>> /\ stdout # <<>> /\ stdout \o outbuf = produced

\* The drivers of the LZMA engine, which take an action argument.
LzmaDriver == driver \in {Xz, Temsxz}
\* A read has returned 0 bytes: end-of-file is set and the buffer was left empty.
ZeroRead == eof /\ inbuf = <<>>

\* C15: in decompress_xz and temsxz the action is continue until the first
\* read; at every engine invocation after a read that returned 0 bytes the
\* action is finish; an invocation requests finish only when no unread byte is
\* left in standard input; and the action, once finish, stays finish.
C15_FinishSticky ==
  /\ [](LzmaDriver =>
          /\ ((rpos = 0 /\ ~eof) => action = LZMA_RUN)
          /\ ((pc = "code" /\ ZeroRead) => action = LZMA_FINISH)
          /\ ((pc = "code" /\ action = LZMA_FINISH) => rpos = Len(input)))
  /\ [][(LzmaDriver /\ action = LZMA_FINISH /\ stage' = stage)
          => action' = LZMA_FINISH]_vars
C15_Witness ==
  /\ driver = Xz /\ pc = "code" /\ ZeroRead /\ action = LZMA_FINISH
  /\ rpos > CHUNK /\ ret = "ok" /\ produced # <<>>

\* C16: in every driver, once the engine has reported stream-end the process
\* never returns to the read and reads nothing more from standard input; when
\* it exits, unless the final write failed, the exit code is 0 and every byte
\* the engine produced has been written, whatever is left unconsumed in the
\* input buffer or unread in standard input.
C16_StreamEndStops ==
  /\ [](ret = "end" =>
          /\ pc # "read"
          /\ ((Exited /\ ~werr) => (exitcode = 0 /\ stdout = produced)))
  /\ [][(ret = "end" /\ stage' = stage)
          => (ret' = "end" /\ UNCHANGED <<rpos, eof, inbuf, rerr>>)]_vars
C16_Witness ==
  /\ driver = Gzip /\ Exited /\ exitcode = 0 /\ ret = "end"
  /\ rpos < Len(input) /\ produced # <<>> /\ stdout = produced

\* C17: every driver, on every finite input, eventually exits.
C17_EveryRunExits == <>Exited

\* C18: in temsxz, at every engine invocation the bytes written so far followed
\* by the bytes held in the output buffer are the bytes produced so far, and at
\* every exit that follows an engine status of stream-end or error, unless the
\* write itself failed, every byte the engine produced has been written.
C18_DeferredFlushLosesNothing ==
  (driver = Temsxz /\ built = 1)
    => /\ (pc = "code" => stdout \o outbuf = produced)
       /\ ((Exited /\ ret \in {"end", "err", "buf"} /\ ~werr) => stdout = produced)
C18_Witness ==
  /\ driver = Temsxz /\ Exited /\ ret = "err" /\ exitcode = 1 /\ ~werr
  /\ Len(produced) = CHUNK + 1 /\ stdout = produced

====
